---- MODULE Spec2Model ----
(***************************************************************************)
(* Model of the operation execution core of the driver                     *)
(* (executeOperation / executeWithServerSelection / retryOperation).       *)
(* One behaviour is one call of executeOperation; the topology, the        *)
(* operation's execute primitive and the session's endSession are the      *)
(* environment, whose answers are the inputs of the handler actions.       *)
(***************************************************************************)
EXTENDS Integers, Sequences, FiniteSets, TLC

VARIABLES
  topology,           \* the Topology object: options, capabilities
  operation,          \* the AbstractOperation: aspects, flags, options bag
  operationSession,   \* operation.session as the caller passed it (never written)
  session,            \* the ClientSession in use (operation.session or implicit)
  owner,              \* local `owner` of executeOperation
  pc,                 \* which completion the execution is waiting for
  onStack,            \* TRUE while the try block of executeOperation is on the stack
  selector,           \* local `selector` of executeWithServerSelection
  inTransaction,      \* local `inTransaction` of executeWithServerSelection
  retryArmed,         \* TRUE when execute was handed the retrying completion
  knownMaxWireVersion,\* local `knownMaxWireVersion`
  selectLog,          \* selectors handed to topology.selectServer by the inner machine
  attempts,           \* one record per call of operation.execute
  unpinLog,           \* calls of session.unpin, in order
  startSessionCalls,  \* calls of topology.startSession
  endSessionCalls,    \* calls of session.endSession
  discoveries,        \* pre-discovery selections (primaryPreferred)
  txnStart,           \* transaction number of the session when it entered the inner machine
  inner,              \* what executeWithServerSelection handed to its callback
  serverDescription,  \* description of the server first selected, as it is now
  retryLog,           \* the maxWireVersion argument of each call of retryOperation
  selectResults,      \* what each topology.selectServer(selector, ...) called back with
  executions,         \* the locals of each of several executions that share `session`
  delivered           \* what the caller's callback received

vars == << topology, operation, operationSession, session, owner, pc, onStack, selector,
           inTransaction, retryArmed, knownMaxWireVersion, selectLog, attempts,
           unpinLog, startSessionCalls, endSessionCalls, discoveries, txnStart,
           inner, serverDescription, retryLog, selectResults, executions,
           delivered >>

----------------------------------------------------------------------------
(* Bounds of the model *)

MaxTxnStart == 1
MaxDiscoveries == 2

----------------------------------------------------------------------------
(* Constants of the program *)

SUPPORTS_OP_MSG == 6

MMAPv1_RETRY_WRITES_ERROR_CODE == "IllegalOperation"

MMAPv1_RETRY_WRITES_ERROR_MESSAGE ==
  "This MongoDB deployment does not support retryable writes. Please add retryWrites=false to your connection string."

Aspect == { "READ_OPERATION", "WRITE_OPERATION", "RETRYABLE",
            "CURSOR_CREATING", "CURSOR_ITERATING" }

----------------------------------------------------------------------------
(* Errors.  An error is a record: its class, the server code and errmsg    *)
(* (a sequence of words), its message, its error labels, and the attempt   *)
(* that raised it (0 when the driver itself made it).                      *)

Err(class, code, message, errmsg, labels, attempt) ==
  [ class |-> class, code |-> code, message |-> message, errmsg |-> errmsg,
    errorLabels |-> labels, attempt |-> attempt ]

NoError == Err("none", "none", "", << >>, {}, 0)

DriverError(class, message) == Err(class, "none", message, << >>, {}, 0)

\* error instanceof MongoError: every class of the driver, not a plain Error
IsMongoError(e) == e.class \notin { "none", "Error" }

IsNetworkError(e) == e.class = "MongoNetworkError"

TransactionNumbersMsg == << "Transaction", "numbers", "are", "only", "allowed" >>
NumbersOnlyMsg == << "numbers", "of", "Transaction" >>
OtherMsg == << "not", "primary" >>

\* /Transaction numbers/.test(errmsg): the two words occur next to each other
MatchesTransactionNumbers(errmsg) ==
  \E i \in 1..(Len(errmsg) - 1) :
     errmsg[i] = "Transaction" /\ errmsg[i + 1] = "numbers"

\* What an attempt of operation.execute can fail with.
AttemptErrors(n) ==
  { Err("MongoNetworkError", "none", "ECONNRESET", << >>, {}, n),
    Err("MongoServerError", "IllegalOperation", "server", TransactionNumbersMsg, {}, n),
    Err("MongoServerError", "IllegalOperation", "server", TransactionNumbersMsg,
        { "RetryableWriteError" }, n),
    Err("MongoServerError", "IllegalOperation", "server", NumbersOnlyMsg,
        { "RetryableWriteError" }, n),
    Err("MongoServerError", "NotWritablePrimary", "server", OtherMsg, {}, n),
    Err("MongoServerError", "DuplicateKey", "server", OtherMsg, {}, n),
    Err("Error", "none", "TypeError", << >>, {}, n) }

\* What the second attempt can fail with (a smaller choice of the same shapes).
SecondAttemptErrors ==
  { e \in AttemptErrors(2) :
       \/ e.code = "IllegalOperation" /\ e.errmsg = NumbersOnlyMsg
       \/ e.code = "DuplicateKey"
       \/ e.class = "Error" }

SelectionError == DriverError("MongoServerSelectionError", "Server selection timed out")

LegacyRetryableCodes == { "NotWritablePrimary" }

StateChangeCodes == { "NotWritablePrimary" }

isRetryableWriteError(error, maxWireVersion) ==
  \/ "RetryableWriteError" \in error.errorLabels
  \/ IsNetworkError(error)
  \/ maxWireVersion < SUPPORTS_OP_MSG /\ error.code \in LegacyRetryableCodes

isRetryableReadError(error) ==
  \/ IsNetworkError(error)
  \/ error.code \in StateChangeCodes
  \/ "RetryableWriteError" \in error.errorLabels

----------------------------------------------------------------------------
(* Servers *)

WireVersions == { 5, 6 }

Addresses == { "a", "b" }

Servers ==
  [ address : Addresses, maxWireVersion : WireVersions, retryableWrites : BOOLEAN ]

NoServer == [ address |-> "none", maxWireVersion |-> 0, retryableWrites |-> FALSE ]

maxWireVersion(server) == server.maxWireVersion

supportsRetryableWrites(server) == server.retryableWrites

supportsRetryableReads(server) == maxWireVersion(server) >= SUPPORTS_OP_MSG

----------------------------------------------------------------------------
(* Sessions *)

NoSession ==
  [ present |-> FALSE, owner |-> "null", hasEnded |-> FALSE,
    snapshotEnabled |-> FALSE, txnState |-> "NO_TRANSACTION",
    isPinned |-> FALSE, txnNumber |-> 0 ]

\* topology.startSession({ owner, explicit: false })
startSession(own) ==
  [ present |-> TRUE, owner |-> own, hasEnded |-> FALSE,
    snapshotEnabled |-> FALSE, txnState |-> "NO_TRANSACTION",
    isPinned |-> FALSE, txnNumber |-> 0 ]

sessionInTransaction(s) == s.present /\ s.txnState = "TRANSACTION_IN_PROGRESS"

transactionIsCommitted(s) == s.txnState = "TRANSACTION_COMMITTED"

\* a core that forgets the increment
incrementTransactionNumber_forgotten(s) == s

incrementTransactionNumber(s) == [ s EXCEPT !.txnNumber = @ + 1 ]

unpin(s) == [ s EXCEPT !.isPinned = FALSE ]

endSession(s) == [ s EXCEPT !.hasEnded = TRUE ]

hasAspect(op, aspect) == aspect \in op.aspects

----------------------------------------------------------------------------
(* The inputs of one execution *)

Options == { "unset", "true", "false" }

Topologies(retryReads, retryWrites, support, snapshot, check) ==
  [ retryReads : retryReads, retryWrites : retryWrites,
    hasSessionSupport : support, supportsSnapshotReads : snapshot,
    shouldCheckForSessionSupport : check ]

Operations(aspectSets, preferences, canRead, canWrite, secondary, bypass) ==
  [ aspects : aspectSets, readPreference : preferences,
    canRetryRead : canRead, canRetryWrite : canWrite,
    trySecondaryWrite : secondary, bypassPinningCheck : bypass,
    server : { "a" }, willRetryWrite : { FALSE } ]

\* Sessions a caller can pass: a session in a transaction is neither ended
\* nor a snapshot session.
ExplicitSessions(owners, ended, snapshot, txnStates, pinned) ==
  { s \in [ present : { TRUE }, owner : owners, hasEnded : ended,
            snapshotEnabled : snapshot, txnState : txnStates,
            isPinned : pinned, txnNumber : 0..MaxTxnStart ] :
      s.txnState = "TRANSACTION_IN_PROGRESS"
         => ~s.hasEnded /\ ~s.snapshotEnabled }

TxnStates ==
  { "NO_TRANSACTION", "TRANSACTION_IN_PROGRESS", "TRANSACTION_COMMITTED" }

\* aspect sets that hold RETRYABLE and any of the aspects in more
Retryable(more) == { { "RETRYABLE" } \cup x : x \in SUBSET more }

\* The executions explored: every combination of what decides arming, and,
\* for retryable operations on a topology that retries, every combination
\* of what decides pinning, the selector, and session acquisition.
ArmingInputs ==
  Topologies(Options, Options, BOOLEAN, { TRUE }, { FALSE })
  \X Operations(SUBSET { "READ_OPERATION", "WRITE_OPERATION", "RETRYABLE" },
                { "primary" }, BOOLEAN, BOOLEAN, { FALSE }, { FALSE })
  \X ({ NoSession }
      \cup ExplicitSessions({ "null" }, { FALSE }, { FALSE }, TxnStates, { FALSE }))

PinningInputs ==
  Topologies({ "unset" }, { "true" }, { TRUE }, { TRUE }, { FALSE })
  \X Operations(Retryable({ "READ_OPERATION", "WRITE_OPERATION", "CURSOR_CREATING" }),
                { "primary", "secondary" }, { TRUE }, { TRUE }, { FALSE }, BOOLEAN)
  \X ExplicitSessions({ "null" }, { FALSE }, { FALSE }, TxnStates, BOOLEAN)

SelectorInputs ==
  Topologies({ "unset" }, { "true" }, { TRUE }, { TRUE }, { FALSE })
  \X Operations(Retryable({ "READ_OPERATION", "WRITE_OPERATION", "CURSOR_ITERATING" }),
                { "none", "primary", "secondary" }, { TRUE }, { TRUE }, BOOLEAN,
                { FALSE })
  \X ({ NoSession }
      \cup ExplicitSessions({ "null" }, { FALSE }, { FALSE },
                            { "NO_TRANSACTION", "TRANSACTION_IN_PROGRESS" },
                            { FALSE }))

AcquisitionInputs ==
  Topologies({ "unset" }, { "true" }, BOOLEAN, BOOLEAN, BOOLEAN)
  \X Operations({ { "RETRYABLE", "READ_OPERATION" }, { "RETRYABLE", "WRITE_OPERATION" } },
                { "primary" }, { TRUE }, { TRUE }, { FALSE }, { FALSE })
  \X ({ NoSession }
      \cup ExplicitSessions({ "null", "other" }, BOOLEAN, BOOLEAN,
                            { "NO_TRANSACTION" }, { FALSE }))

Inputs == ArmingInputs \cup PinningInputs \cup SelectorInputs \cup AcquisitionInputs

NoOutcome == [ calls |-> 0, error |-> NoError, result |-> "undefined" ]

Init ==
  /\ \E input \in Inputs :
        /\ topology = input[1]
        /\ operation = input[2]
        /\ operationSession = input[3]
        /\ session = input[3]
  /\ owner = "null"
  /\ pc = "start"
  /\ onStack = FALSE
  /\ selector = "none"
  /\ inTransaction = FALSE
  /\ retryArmed = FALSE
  /\ knownMaxWireVersion = 0
  /\ selectLog = << >>
  /\ attempts = << >>
  /\ unpinLog = << >>
  /\ startSessionCalls = 0
  /\ endSessionCalls = 0
  /\ discoveries = 0
  /\ txnStart = 0
  /\ inner = NoOutcome
  /\ serverDescription = NoServer
  /\ retryLog = << >>
  /\ selectResults = << >>
  /\ executions = << >>
  /\ delivered = NoOutcome

----------------------------------------------------------------------------
(* executeOperation: completion of the inner machine, and teardown *)

Outcome(error, result) ==
  [ calls |-> 1, error |-> error, result |-> result ]

\* a teardown that ends every session that has an owner
ownsSession_anyOwner(s, own) == s.present /\ s.owner # "null"

\* session && session.owner != null && session.owner === owner
ownsSession(s, own) == s.present /\ s.owner # "null" /\ s.owner = own

\* endSessionError ?? error
teardownError(endSessionError, error) ==
  IF endSessionError # NoError THEN endSessionError ELSE error

\* callback(error, result) of the caller, called directly
Deliver(error, result) ==
  /\ delivered' = [ Outcome(error, result) EXCEPT !.calls = delivered.calls + 1 ]
  /\ pc' = "done"
  /\ onStack' = FALSE

\* The completion handed to executeWithServerSelection: an implicit session
\* is ended first, and the caller hears of the outcome after that.
InnerCallback(s, own, error, result) ==
  /\ inner' = [ Outcome(error, result) EXCEPT !.calls = inner.calls + 1 ]
  /\ IF ownsSession(s, own)
       THEN /\ session' = endSession(s)
            /\ endSessionCalls' = endSessionCalls + 1
            /\ pc' = "endSession"
            /\ onStack' = FALSE
            /\ delivered' = delivered
       ELSE /\ session' = s
            /\ endSessionCalls' = endSessionCalls
            /\ Deliver(error, result)

\* what session.endSession can fail with
EndSessionFailure == DriverError("MongoError", "endSessions failed")

\* session.endSession(endSessionError => callback(endSessionError ?? error, result))
EndSessionDone ==
  /\ UNCHANGED << operationSession, executions >>
  /\ pc = "endSession"
  /\ \E endSessionError \in { NoError, EndSessionFailure } :
        Deliver(teardownError(endSessionError, inner.error), inner.result)
  /\ UNCHANGED << topology, operation, session, owner, selector, inTransaction,
                  retryArmed, knownMaxWireVersion, selectLog, attempts, unpinLog,
                  startSessionCalls, endSessionCalls, discoveries, txnStart, inner,
                  serverDescription, retryLog, selectResults >>

----------------------------------------------------------------------------
(* executeWithServerSelection: pre-flight, selector, first selection *)

NoSelector == [ kind |-> "none", readPreference |-> "none", server |-> "none" ]

\* a choice that looks at trySecondaryWrite before the cursor aspect
chooseSelector_secondaryFirst(op, readPreference) ==
  IF op.trySecondaryWrite
    THEN [ kind |-> "secondaryWritable", readPreference |-> readPreference,
           server |-> "none" ]
    ELSE IF hasAspect(op, "CURSOR_ITERATING")
      THEN [ kind |-> "sameServer", readPreference |-> "none", server |-> op.server ]
      ELSE [ kind |-> "readPreference", readPreference |-> readPreference,
             server |-> "none" ]

\* the selector of one execution
chooseSelector(op, readPreference) ==
  IF hasAspect(op, "CURSOR_ITERATING")
    THEN [ kind |-> "sameServer", readPreference |-> "none", server |-> op.server ]
    ELSE IF op.trySecondaryWrite
      THEN [ kind |-> "secondaryWritable", readPreference |-> readPreference,
             server |-> "none" ]
      ELSE [ kind |-> "readPreference", readPreference |-> readPreference,
             server |-> "none" ]

\* the servers topology.selectServer can hand over for a selector: the
\* same-server selector lets through the server of its description only
Selectable(sel) ==
  IF sel.kind = "sameServer"
    THEN { server \in Servers : server.address = sel.server }
    ELSE Servers

\* a pre-flight that never looks at the operation's read preference
effectiveReadPreference_ignored(op) == "primary"

\* operation.readPreference ?? ReadPreference.primary
effectiveReadPreference(op) ==
  IF op.readPreference = "none" THEN "primary" ELSE op.readPreference

\* inTransaction && !readPreference.equals(ReadPreference.primary)
preflightFails(inTxn, readPreference) == inTxn /\ readPreference # "primary"

\* a pre-flight that unpins every pinned session
shouldUnpin_anyPinned(s, op) == s.present /\ s.isPinned /\ ~op.bypassPinningCheck

\* session?.isPinned && session?.transaction.isCommitted && !operation.bypassPinningCheck
shouldUnpin(s, op) ==
  s.present /\ s.isPinned /\ transactionIsCommitted(s) /\ ~op.bypassPinningCheck

TransactionError ==
  DriverError("MongoTransactionError", "Read preference in a transaction must be primary")

executeWithServerSelection(s, own) ==
  LET readPreference == effectiveReadPreference(operation)
      inTxn == sessionInTransaction(s)
      s2 == IF shouldUnpin(s, operation) THEN unpin(s) ELSE s
  IN
  /\ inTransaction' = inTxn
  /\ txnStart' = s.txnNumber
  /\ IF preflightFails(inTxn, readPreference)
       THEN /\ InnerCallback(s, own, TransactionError, "undefined")
            /\ UNCHANGED << selector, selectLog, unpinLog >>
       ELSE /\ unpinLog' = IF shouldUnpin(s, operation)
                             THEN Append(unpinLog, "unpin") ELSE unpinLog
            /\ selector' = chooseSelector(operation, readPreference)
            /\ IF readPreference # "primary" /\ sessionInTransaction(s2)
                 THEN \* the second check of the same condition
                      /\ InnerCallback(s2, own, TransactionError, "undefined")
                      /\ selectLog' = selectLog
                 ELSE /\ selectLog' = Append(selectLog, selector')
                      /\ session' = s2
                      /\ pc' = "selectServer1"
                      /\ onStack' = TRUE
                      /\ UNCHANGED << inner, delivered, endSessionCalls >>

----------------------------------------------------------------------------
(* executeOperation: entry and session acquisition *)

ExpiredSessionError ==
  DriverError("MongoExpiredSessionError", "Use of expired sessions is not permitted")

SnapshotError ==
  DriverError("MongoCompatibilityError", "Snapshot reads require MongoDB 5.0 or later")

NoSessionSupportError ==
  DriverError("MongoCompatibilityError", "Current topology does not support sessions")

\* an acquisition that tests for an ended session before anything else
acquisitionError_endedFirst(topo, s) ==
  IF s.present /\ s.hasEnded THEN ExpiredSessionError
  ELSE IF topo.hasSessionSupport
    THEN IF s.present /\ s.snapshotEnabled /\ ~topo.supportsSnapshotReads
           THEN SnapshotError ELSE NoError
    ELSE IF s.present THEN NoSessionSupportError ELSE NoError

\* the error session acquisition fails with, NoError when it goes on
acquisitionError(topo, s) ==
  IF topo.hasSessionSupport
    THEN IF ~s.present THEN NoError
         ELSE IF s.hasEnded THEN ExpiredSessionError
         ELSE IF s.snapshotEnabled /\ ~topo.supportsSnapshotReads THEN SnapshotError
         ELSE NoError
    ELSE IF s.present THEN NoSessionSupportError ELSE NoError

\* topology.hasSessionSupport() && session == null
createsImplicitSession(topo, s) == topo.hasSessionSupport /\ ~s.present

\* The body of executeOperation, on a topology in state topo.
Enter(topo) ==
  /\ topology' = topo
  /\ IF topo.shouldCheckForSessionSupport
       THEN /\ pc' = "preSelect"
            /\ discoveries' = discoveries + 1
            /\ UNCHANGED << session, owner, onStack, selector, inTransaction,
                            selectLog, unpinLog, startSessionCalls,
                            endSessionCalls, txnStart, inner, delivered >>
       ELSE /\ discoveries' = discoveries
            /\ IF acquisitionError(topo, session) # NoError
                 THEN /\ Deliver(acquisitionError(topo, session), "undefined")
                      /\ UNCHANGED << session, owner, selector, inTransaction,
                                      selectLog, unpinLog, startSessionCalls,
                                      endSessionCalls, txnStart, inner >>
                 ELSE IF createsImplicitSession(topo, session)
                   THEN /\ owner' = "mine"
                        /\ startSessionCalls' = startSessionCalls + 1
                        /\ executeWithServerSelection(startSession("mine"), "mine")
                   ELSE /\ owner' = owner
                        /\ startSessionCalls' = startSessionCalls
                        /\ executeWithServerSelection(session, owner)
  /\ UNCHANGED << operation, retryArmed, knownMaxWireVersion, attempts,
                  serverDescription, retryLog, selectResults >>

executeOperation ==
  /\ UNCHANGED << operationSession, executions >>
  /\ pc = "start"
  /\ Enter(topology)

\* completion of topology.selectServer(ReadPreference.primaryPreferred, ...)
PreSelectDone ==
  /\ UNCHANGED << operationSession, executions >>
  /\ pc = "preSelect"
  /\ \/ /\ Deliver(SelectionError, "undefined")
        /\ UNCHANGED << topology, operation, session, owner, selector,
                        inTransaction, retryArmed, knownMaxWireVersion, selectLog,
                        attempts, unpinLog, startSessionCalls, endSessionCalls,
                        discoveries, txnStart, inner, serverDescription,
                        retryLog, selectResults >>
     \/ \E still \in BOOLEAN, support \in BOOLEAN :
          /\ still => discoveries < MaxDiscoveries
          /\ Enter([ topology EXCEPT !.shouldCheckForSessionSupport = still,
                                     !.hasSessionSupport = support ])

----------------------------------------------------------------------------
(* executeWithServerSelection: the first selection and the first attempt *)

\* read retry as an opt-in, like write retry
willRetryRead_optIn(topo, inTxn, server, op) ==
  /\ topo.retryReads = "true"
  /\ ~inTxn
  /\ supportsRetryableReads(server)
  /\ op.canRetryRead

willRetryRead(topo, inTxn, server, op) ==
  /\ topo.retryReads # "false"
  /\ ~inTxn
  /\ supportsRetryableReads(server)
  /\ op.canRetryRead

\* write retry as an opt-out, like read retry
willRetryWrite_optOut(topo, inTxn, server, op) ==
  /\ topo.retryWrites # "false"
  /\ ~inTxn
  /\ supportsRetryableWrites(server)
  /\ op.canRetryWrite

willRetryWrite(topo, inTxn, server, op) ==
  /\ topo.retryWrites = "true"
  /\ ~inTxn
  /\ supportsRetryableWrites(server)
  /\ op.canRetryWrite

\* hasWriteAspect && willRetryWrite, under session && hasAspect(RETRYABLE)
armsWrite(topo, inTxn, server, op, s) ==
  /\ s.present
  /\ hasAspect(op, "RETRYABLE")
  /\ hasAspect(op, "WRITE_OPERATION")
  /\ willRetryWrite(topo, inTxn, server, op)

armsRead(topo, inTxn, server, op, s) ==
  /\ s.present
  /\ hasAspect(op, "RETRYABLE")
  /\ hasAspect(op, "READ_OPERATION")
  /\ willRetryRead(topo, inTxn, server, op)

Attempt(server, s) ==
  [ server |-> server, txnNumber |-> s.txnNumber, completed |-> FALSE,
    error |-> NoError, result |-> "undefined" ]

\* an arming that leaves the options bag alone
setWillRetryWrite_forgotten(op) == op

\* operation.options.willRetryWrite = true
setWillRetryWrite(op) == [ op EXCEPT !.willRetryWrite = TRUE ]

\* (error, server) as topology.selectServer hands them to its callback
SelectResult(error, server) ==
  [ error |-> error, hasServer |-> server # NoServer, server |-> server ]

\* completion of the first topology.selectServer(selector, ...)
SelectServer1Done ==
  /\ UNCHANGED << operationSession, executions >>
  /\ pc = "selectServer1"
  /\ \/ \E error \in { NoError, SelectionError } :
          \* error || !server
          /\ InnerCallback(session, owner, error, "undefined")
          /\ selectResults' = Append(selectResults, SelectResult(error, NoServer))
          /\ UNCHANGED << operation, retryArmed, knownMaxWireVersion, attempts,
                          serverDescription >>
     \/ \E server \in Selectable(selector), sync \in BOOLEAN :
          LET w == armsWrite(topology, inTransaction, server, operation, session)
              r == armsRead(topology, inTransaction, server, operation, session)
              s2 == IF w THEN incrementTransactionNumber(session) ELSE session
          IN /\ operation' = IF w THEN setWillRetryWrite(operation) ELSE operation
             /\ session' = s2
             /\ retryArmed' = (r \/ w)
             /\ knownMaxWireVersion' =
                  IF r \/ w THEN maxWireVersion(server) ELSE knownMaxWireVersion
             /\ attempts' = Append(attempts, Attempt(server, s2))
             /\ serverDescription' = server
             /\ selectResults' = Append(selectResults, SelectResult(NoError, server))
             /\ pc' = "execute1"
             /\ onStack' = (onStack /\ sync)
             /\ UNCHANGED << inner, delivered, endSessionCalls >>
  /\ UNCHANGED << topology, owner, selector, inTransaction, selectLog, unpinLog,
                  startSessionCalls, discoveries, txnStart, retryLog >>

----------------------------------------------------------------------------
(* retryOperation *)

RemappedError ==
  Err("MongoServerError", "none", MMAPv1_RETRY_WRITES_ERROR_MESSAGE, << >>, {}, 0)

\* a retry policy that skips the retryability checks
retryDecision_unchecked(op, originalError, wire) ==
  IF /\ hasAspect(op, "WRITE_OPERATION")
     /\ originalError.code = MMAPv1_RETRY_WRITES_ERROR_CODE
     /\ MatchesTransactionNumbers(originalError.errmsg)
    THEN "remap"
    ELSE "reselect"

\* The three ways retryOperation goes on with the first attempt's error.
retryDecision(op, originalError, wire) ==
  IF hasAspect(op, "WRITE_OPERATION") /\ ~isRetryableWriteError(originalError, wire)
    THEN "surface"
  ELSE IF hasAspect(op, "READ_OPERATION") /\ ~isRetryableReadError(originalError)
    THEN "surface"
  ELSE IF /\ hasAspect(op, "WRITE_OPERATION")
          /\ originalError.code = MMAPv1_RETRY_WRITES_ERROR_CODE
          /\ MatchesTransactionNumbers(originalError.errmsg)
    THEN "remap"
  ELSE "reselect"

\* a retry that force-unpins after any retryable error
forcesUnpin_anyError(op, originalError, s) ==
  /\ s.isPinned
  /\ ~sessionInTransaction(s)
  /\ hasAspect(op, "CURSOR_CREATING")

\* originalError instanceof MongoNetworkError && session.isPinned &&
\* !session.inTransaction() && operation.hasAspect(Aspect.CURSOR_CREATING)
forcesUnpin(op, originalError, s) ==
  /\ IsNetworkError(originalError)
  /\ s.isPinned
  /\ ~sessionInTransaction(s)
  /\ hasAspect(op, "CURSOR_CREATING")

\* a retry that takes a new transaction number
retrySession_incrementing(op, originalError, s) ==
  incrementTransactionNumber(IF forcesUnpin(op, originalError, s) THEN unpin(s) ELSE s)

\* the session as retryOperation leaves it before the re-selection
retrySession(op, originalError, s) ==
  IF forcesUnpin(op, originalError, s) THEN unpin(s) ELSE s

retryOperation(originalError, wire, stack) ==
  LET d == retryDecision(operation, originalError, wire) IN
  /\ retryLog' = Append(retryLog, wire)
  /\ IF d = "surface"
       THEN /\ InnerCallback(session, owner, originalError, "undefined")
            /\ UNCHANGED << selectLog, unpinLog >>
     ELSE IF d = "remap"
       THEN /\ InnerCallback(session, owner, RemappedError, "undefined")
            /\ UNCHANGED << selectLog, unpinLog >>
     ELSE /\ session' = retrySession(operation, originalError, session)
          /\ unpinLog' = IF forcesUnpin(operation, originalError, session)
                           THEN Append(unpinLog, "forceClear") ELSE unpinLog
          /\ selectLog' = Append(selectLog, selector)
          /\ pc' = "selectServer2"
          /\ onStack' = stack
          /\ UNCHANGED << inner, delivered, endSessionCalls >>

Complete(attempt, error, result) ==
  [ attempt EXCEPT !.completed = TRUE, !.error = error, !.result = result ]

\* the error of an attempt makes the topology mark the server Unknown
markUnknown(description) == [ description EXCEPT !.maxWireVersion = 0 ]

\* a completion that asks the server for its wire version after the failure
retryMaxWireVersion_afterFailure(known, description) == maxWireVersion(description)

\* retryOperation(error, knownMaxWireVersion)
retryMaxWireVersion(known, description) == known

\* completion of the first operation.execute(server, session, ...): the
\* attempt calls back, and its error may have marked the server Unknown
Execute1Done ==
  /\ UNCHANGED << operationSession, executions >>
  /\ pc = "execute1"
  /\ \E error \in AttemptErrors(1) \cup { NoError }, sync \in BOOLEAN,
        unknown \in BOOLEAN :
       LET result == IF error = NoError THEN "result1" ELSE "undefined" IN
       /\ unknown => IsMongoError(error)
       /\ attempts' = [ attempts EXCEPT ![1] = Complete(@, error, result) ]
       /\ serverDescription' =
            IF unknown THEN markUnknown(serverDescription) ELSE serverDescription
       /\ IF retryArmed /\ IsMongoError(error)
            THEN retryOperation(error,
                                retryMaxWireVersion(knownMaxWireVersion,
                                                    serverDescription'),
                                onStack /\ sync)
            ELSE /\ InnerCallback(session, owner, error, result)
                 /\ UNCHANGED << selectLog, unpinLog, retryLog >>
  /\ UNCHANGED << topology, operation, owner, selector, inTransaction, retryArmed,
                  knownMaxWireVersion, startSessionCalls, discoveries, txnStart,
                  selectResults >>

----------------------------------------------------------------------------
(* retryOperation: the re-selection and the second attempt *)

NoRetryableReadsError ==
  DriverError("MongoUnexpectedServerResponseError",
              "Selected server does not support retryable reads")

NoRetryableWritesError ==
  DriverError("MongoUnexpectedServerResponseError",
              "Selected server does not support retryable writes")

SelectionFailedError ==
  DriverError("MongoUnexpectedServerResponseError",
              "Server selection failed without error")

\* a re-selection that takes any server it is handed
reselectionError_unchecked(op, error, hasServer, server) ==
  IF error # NoError \/ ~hasServer
    THEN (IF error # NoError THEN error ELSE SelectionFailedError)
    ELSE NoError

\* The error the completion of the re-selection surfaces, NoError when the
\* second attempt is to be made.  hasServer is FALSE when selectServer
\* handed no server (server is NoServer then).
reselectionError(op, error, hasServer, server) ==
  IF error = NoError /\ hasAspect(op, "READ_OPERATION") /\ ~supportsRetryableReads(server)
    THEN NoRetryableReadsError
  ELSE IF error = NoError /\ hasAspect(op, "WRITE_OPERATION")
          /\ ~supportsRetryableWrites(server)
    THEN NoRetryableWritesError
  ELSE IF error # NoError \/ ~hasServer
    THEN (IF error # NoError THEN error ELSE SelectionFailedError)
  ELSE NoError

\* completion of the topology.selectServer(selector, ...) of retryOperation
SelectServer2Done ==
  /\ UNCHANGED << operationSession, executions >>
  /\ pc = "selectServer2"
  /\ \E error \in { NoError, SelectionError }, hasServer \in BOOLEAN,
        srv \in Selectable(selector), sync \in BOOLEAN :
       LET server == IF hasServer THEN srv ELSE NoServer
           e == reselectionError(operation, error, hasServer, server)
       IN /\ error # NoError => ~hasServer
          /\ selectResults' = Append(selectResults, SelectResult(error, server))
          /\ IF e # NoError
               THEN /\ InnerCallback(session, owner, e, "undefined")
                    /\ attempts' = attempts
               ELSE /\ attempts' = Append(attempts, Attempt(server, session))
                    /\ pc' = "execute2"
                    /\ onStack' = (onStack /\ sync)
                    /\ UNCHANGED << session, inner, delivered, endSessionCalls >>
  /\ UNCHANGED << topology, operation, owner, selector, inTransaction, retryArmed,
                  knownMaxWireVersion, selectLog, unpinLog, startSessionCalls,
                  discoveries, txnStart, serverDescription, retryLog >>

\* a retry that reports the first attempt's error when the second fails
retryOutcome_chained(first, second) ==
  IF second.error # NoError THEN first ELSE second

\* operation.execute(server, session, callback): the second attempt is handed
\* the callback itself, so what it completes with is what is surfaced
retryOutcome(first, second) == second

\* completion of the second operation.execute(server, session, callback)
Execute2Done ==
  /\ UNCHANGED << operationSession, executions >>
  /\ pc = "execute2"
  /\ \E error \in SecondAttemptErrors \cup { NoError } :
       LET result == IF error = NoError THEN "result2" ELSE "undefined" IN
       /\ attempts' = [ attempts EXCEPT ![2] = Complete(@, error, result) ]
       /\ InnerCallback(session, owner,
                        retryOutcome(attempts[1], attempts'[2]).error,
                        retryOutcome(attempts[1], attempts'[2]).result)
  /\ UNCHANGED << topology, operation, owner, selector, inTransaction, retryArmed,
                  knownMaxWireVersion, selectLog, unpinLog, startSessionCalls,
                  discoveries, txnStart, serverDescription, retryLog, selectResults >>

\* operation.execute throws instead of completing.  The catch of
\* executeOperation sees it only while the try block is on the stack; it
\* ends an implicit session and calls nobody.
ExecuteThrows ==
  /\ UNCHANGED << operationSession, executions >>
  /\ pc \in { "execute1", "execute2" }
  /\ IF onStack
       THEN /\ pc' = "caught"
            /\ session' = IF ownsSession(session, owner)
                            THEN endSession(session) ELSE session
            /\ endSessionCalls' = IF ownsSession(session, owner)
                                    THEN endSessionCalls + 1 ELSE endSessionCalls
       ELSE /\ pc' = "uncaught"
            /\ UNCHANGED << session, endSessionCalls >>
  /\ onStack' = FALSE
  /\ UNCHANGED << topology, operation, owner, selector, inTransaction, retryArmed,
                  knownMaxWireVersion, selectLog, attempts, unpinLog,
                  startSessionCalls, discoveries, txnStart, inner, delivered,
                  serverDescription, retryLog, selectResults >>

----------------------------------------------------------------------------

Next ==
  \/ executeOperation
  \/ PreSelectDone
  \/ SelectServer1Done
  \/ Execute1Done
  \/ SelectServer2Done
  \/ Execute2Done
  \/ EndSessionDone
  \/ ExecuteThrows

Spec == Init /\ [][Next]_vars

----------------------------------------------------------------------------
(* Properties *)

Terminal == pc \in { "done", "caught", "uncaught" }

\* the inner machine handed over an outcome
Surfaced == inner.calls > 0

\* C1: operation.execute is invoked at most twice and the inner machine
\* selects a server at most twice; a second invocation happens only after
\* the first one failed with a MongoError while retry was armed and the error
\* was classified retryable for every aspect the operation has; once the
\* second invocation completed its outcome is handed over and nothing more
\* is started.
C1_AtMostTwoAttempts ==
  /\ Len(attempts) <= 2
  /\ Len(selectLog) <= 2
  /\ Len(attempts) = 2 =>
       LET first == attempts[1] IN
       /\ first.completed
       /\ IsMongoError(first.error)
       /\ retryArmed
       /\ hasAspect(operation, "WRITE_OPERATION")
            => isRetryableWriteError(first.error, first.server.maxWireVersion)
       /\ hasAspect(operation, "READ_OPERATION")
            => isRetryableReadError(first.error)
  /\ (Len(attempts) = 2 /\ attempts[2].completed)
       => /\ pc \in { "endSession", "done" }
          /\ inner.calls = 1

C1_Witness ==
  /\ pc = "done"
  /\ Len(attempts) = 2
  /\ attempts[2].completed
  /\ attempts[2].error # NoError

\* C2: when a WRITE and RETRYABLE operation ran with write retry armed, the
\* session's transaction number at the end of the execution is its number
\* at the start plus one, whatever the outcome.
C2_TxnNumberPlusOne ==
  ( /\ Terminal
    /\ hasAspect(operation, "WRITE_OPERATION")
    /\ hasAspect(operation, "RETRYABLE")
    /\ operation.willRetryWrite )
  => session.txnNumber = txnStart + 1

C2_Witness ==
  /\ pc = "done"
  /\ operation.willRetryWrite
  /\ Len(attempts) = 2
  /\ attempts[2].error # NoError

\* session acquisition was reached (a pending or failed pre-discovery
\* selection leaves shouldCheckForSessionSupport set)
AcquisitionReached ==
  /\ pc \notin { "start", "preSelect" }
  /\ ~topology.shouldCheckForSessionSupport

\* the inner machine was entered
InnerEntered ==
  /\ AcquisitionReached
  /\ acquisitionError(topology, operationSession) = NoError

\* retry is armed, from the inputs of the first selection's completion
ArmedByInputs ==
  /\ Len(attempts) >= 1
  /\ session.present
  /\ "RETRYABLE" \in operation.aspects
  /\ ~inTransaction
  /\ \/ /\ "READ_OPERATION" \in operation.aspects
        /\ topology.retryReads # "false"
        /\ attempts[1].server.maxWireVersion >= 6
        /\ operation.canRetryRead
     \/ /\ "WRITE_OPERATION" \in operation.aspects
        /\ topology.retryWrites = "true"
        /\ attempts[1].server.retryableWrites
        /\ operation.canRetryWrite

\* what the caller receives for an outcome of the inner machine: the outcome
\* itself, or the error of ending an implicit session
DeliveredFor(error, result) ==
  pc = "done" =>
    /\ delivered.calls = 1
    /\ delivered.result = result
    /\ \/ delivered.error = error
       \/ startSessionCalls = 1 /\ delivered.error = EndSessionFailure

\* one attempt at most, handed over unchanged, transaction number untouched
SingleAttempt ==
  /\ Len(attempts) <= 1
  /\ session.txnNumber = txnStart
  /\ ~operation.willRetryWrite
  /\ (Surfaced /\ Len(attempts) = 1)
       => /\ attempts[1].completed
          /\ inner.calls = 1
          /\ inner.error = attempts[1].error
          /\ inner.result = attempts[1].result
          /\ DeliveredFor(attempts[1].error, attempts[1].result)

\* C3 as stated, for the executions that reach the first server selection
\* and whose only attempt succeeds: when retry is not armed, executeOperation
\* performs exactly one server selection and one attempt, returns that
\* attempt's result unchanged and leaves the transaction number alone.
C3_Original ==
  ( /\ pc = "done"
    /\ InnerEntered
    /\ ~ArmedByInputs
    /\ Len(attempts) = 1
    /\ attempts[1].error = NoError )
  => /\ Len(selectLog) = 1
     /\ session.txnNumber = txnStart
     /\ delivered = Outcome(NoError, attempts[1].result)

\* C3 (amended): every execution that reaches the first server selection of
\* the inner machine and in which retry is not armed performs exactly that
\* one selection and at most one attempt, hands that attempt's result or
\* error over unchanged (the caller receives it, unless ending an implicit
\* session reports an error) and leaves the transaction number unchanged;
\* an execution that fails at pre-flight performs no selection at all.
C3_NotArmedSingleAttempt ==
  (InnerEntered /\ ~ArmedByInputs)
  => /\ SingleAttempt
     /\ Len(selectLog) <= 1
     /\ Len(selectLog) = 0
          <=> ( sessionInTransaction(operationSession)
                /\ operation.readPreference = "secondary" )
     /\ (Surfaced /\ Len(attempts) = 0)
          => /\ inner.result = "undefined"
             /\ inner.error \in { NoError, SelectionError, TransactionError }

C3_Witness ==
  /\ pc = "done"
  /\ InnerEntered
  /\ ~ArmedByInputs
  /\ topology.retryWrites = "unset"
  /\ operation.aspects = { "RETRYABLE", "WRITE_OPERATION" }
  /\ Len(attempts) = 1
  /\ IsNetworkError(attempts[1].error)
  /\ delivered.error = attempts[1].error

C5_ExecutionErrorWins ==
  (pc = "done" /\ endSessionCalls = 1)
  => /\ inner.error = NoError
          => delivered.error \in { NoError, EndSessionFailure }
     /\ inner.error # NoError => delivered.error = inner.error

\* C6 as stated, for the executions in which write retry was armed: when
\* retryWrites is true and the first attempt of a write failed with code
\* IllegalOperation and an errmsg containing "Transaction numbers", the
\* error handed over carries the remap message, and there was neither a
\* re-selection nor a second attempt.
C6_LegacyRemap ==
  ( /\ Surfaced
    /\ topology.retryWrites = "true"
    /\ "WRITE_OPERATION" \in operation.aspects
    /\ operation.willRetryWrite
    /\ Len(attempts) >= 1
    /\ attempts[1].completed
    /\ attempts[1].error.code = "IllegalOperation"
    /\ MatchesTransactionNumbers(attempts[1].error.errmsg) )
  => /\ inner.error.message = MMAPv1_RETRY_WRITES_ERROR_MESSAGE
     /\ Len(selectLog) = 1
     /\ Len(attempts) = 1

\* C7: in an execution with write retry armed the transaction number is
\* changed once, before the first attempt: every attempt runs with the
\* number at the start plus one, and the session keeps that number, so a
\* server that applies a write once per (session, number) sees one number.
C7_SameTxnNumberOnRetry ==
  (operation.willRetryWrite /\ Len(attempts) >= 1)
  => /\ attempts[1].txnNumber = txnStart + 1
     /\ session.txnNumber = attempts[1].txnNumber
     /\ \A i \in 1..Len(attempts) : attempts[i].txnNumber = attempts[1].txnNumber
     /\ Cardinality({ attempts[i].txnNumber : i \in 1..Len(attempts) }) = 1

C7_Witness ==
  /\ pc = "done"
  /\ operation.willRetryWrite
  /\ Len(attempts) = 2
  /\ IsNetworkError(attempts[1].error)
  /\ attempts[2].error = NoError

\* C8: once a second attempt completed, the inner machine hands over that
\* attempt's outcome: its result and no error on success, and on failure its
\* error itself, labels included, and not the first attempt's error.
C8_SecondOutcomeSurfaced ==
  (Len(attempts) = 2 /\ attempts[2].completed)
  => /\ inner.calls = 1
     /\ inner.error = attempts[2].error
     /\ inner.result = attempts[2].result
     /\ inner.error.errorLabels = attempts[2].error.errorLabels
     /\ inner.error # NoError => inner.error.attempt = 2
     /\ attempts[2].error = NoError
          => (inner.error = NoError /\ inner.result = "result2")

C8_Witness ==
  /\ pc = "done"
  /\ Len(attempts) = 2
  /\ attempts[2].completed
  /\ "RetryableWriteError" \in attempts[2].error.errorLabels
  /\ inner.error = attempts[2].error

\* C9: when the inner machine is entered with a session in a transaction and
\* a read preference that is not primary, it fails with the Transaction
\* error: no server selection, no attempt, no unpin, and the session, its
\* transaction number included, is as the caller passed it.
C9_PreflightTransactionError ==
  ( /\ InnerEntered
    /\ sessionInTransaction(operationSession)
    /\ operation.readPreference = "secondary" )
  => /\ pc = "done"
     /\ inner = Outcome(TransactionError, "undefined")
     /\ delivered = Outcome(TransactionError, "undefined")
     /\ selectLog = << >>
     /\ attempts = << >>
     /\ unpinLog = << >>
     /\ session = operationSession

C9_Witness ==
  /\ pc = "done"
  /\ delivered.error = TransactionError
  /\ operationSession.isPinned

\* how a failed session acquisition leaves the execution
AcquisitionFailed(error) ==
  /\ pc = "done"
  /\ delivered = Outcome(error, "undefined")
  /\ inner.calls = 0
  /\ startSessionCalls = 0
  /\ endSessionCalls = 0
  /\ session = operationSession
  /\ ~operation.willRetryWrite
  /\ selectLog = << >>
  /\ attempts = << >>
  /\ unpinLog = << >>

\* C10 as stated: an ended explicit session yields ExpiredSession, an
\* explicit snapshot session on a topology without snapshot reads yields
\* Compatibility, an explicit session on a topology without session support
\* yields Compatibility, each before any attempt and without creating or
\* changing a session.
C10_Original ==
  (AcquisitionReached /\ operationSession.present)
  => /\ operationSession.hasEnded => AcquisitionFailed(ExpiredSessionError)
     /\ (operationSession.snapshotEnabled /\ ~topology.supportsSnapshotReads)
          => ( AcquisitionFailed(SnapshotError)
               \/ AcquisitionFailed(NoSessionSupportError) )
     /\ ~topology.hasSessionSupport => AcquisitionFailed(NoSessionSupportError)

\* C10 (amended): on a topology with session support an ended explicit
\* session yields ExpiredSession, and one that is not ended, with snapshot
\* reads enabled on a topology without snapshot reads, yields Compatibility;
\* on a topology without session support every explicit session, ended or
\* not, yields Compatibility; each before any attempt and without creating
\* or changing a session.
C10_AcquisitionFailsFast ==
  (AcquisitionReached /\ operationSession.present)
  => /\ (topology.hasSessionSupport /\ operationSession.hasEnded)
          => AcquisitionFailed(ExpiredSessionError)
     /\ ( /\ topology.hasSessionSupport
          /\ ~operationSession.hasEnded
          /\ operationSession.snapshotEnabled
          /\ ~topology.supportsSnapshotReads )
          => AcquisitionFailed(SnapshotError)
     /\ ~topology.hasSessionSupport => AcquisitionFailed(NoSessionSupportError)

C10_Witness ==
  /\ pc = "done"
  /\ operationSession.hasEnded
  /\ ~topology.hasSessionSupport
  /\ delivered.error = NoSessionSupportError

\* the execution has nothing left to run: no completion is pending
Stopped == ~ENABLED Next

\* C11 as stated, as what a finished execution has done: once every server
\* selection, attempt and endSession that was started has completed, the
\* caller has received exactly one outcome, also after a pre-discovery
\* selection and re-entry and after a synchronous throw of the inner
\* pipeline (a throw after an asynchronous completion, which no catch of
\* executeOperation sees, is left aside).
C11_ExactlyOneOutcome ==
  /\ delivered.calls <= 1
  /\ (Stopped /\ pc # "uncaught") => delivered.calls = 1

\* C12: the max wire version handed to retryOperation is the one the
\* selected server had when the first attempt was started, also when the
\* server was marked Unknown (wire version 0) by the time the attempt
\* failed; the write-retryability decision is the one for that earlier
\* value: a write whose error is not retryable for it is surfaced unchanged
\* without a re-selection, and one whose error is retryable for it is not.
C12_SnapshotWireVersion ==
  Len(retryLog) >= 1 =>
    LET first == attempts[1] IN
    /\ Len(retryLog) = 1
    /\ retryLog[1] = knownMaxWireVersion
    /\ retryLog[1] = maxWireVersion(first.server)
    /\ hasAspect(operation, "WRITE_OPERATION") =>
         IF isRetryableWriteError(first.error, maxWireVersion(first.server))
           THEN \/ hasAspect(operation, "READ_OPERATION")
                \/ Len(selectLog) = 2
                \/ inner.error # first.error
           ELSE /\ Len(selectLog) = 1
                /\ inner = Outcome(first.error, "undefined")

C12_Witness ==
  /\ Len(retryLog) = 1
  /\ hasAspect(operation, "WRITE_OPERATION")
  /\ maxWireVersion(attempts[1].server) = SUPPORTS_OP_MSG
  /\ maxWireVersion(serverDescription) = 0
  /\ attempts[1].error.code \in LegacyRetryableCodes
  /\ attempts[1].error.errorLabels = {}
  /\ inner.error = attempts[1].error

\* C13: once the first selection handed a server, retry is armed exactly
\* when a session is present, the operation is RETRYABLE, the session was
\* not in a transaction, and either the operation is a READ, retryReads is
\* not false, the server's wire version is at least SUPPORTS_OP_MSG and
\* canRetryRead holds, or it is a WRITE, retryWrites is true, the server
\* advertises retryable writes and canRetryWrite holds; with both options
\* unset a read is armed and a write is not.
C13_ArmedIff ==
  Len(attempts) >= 1 =>
    LET server == attempts[1].server
        readGate == /\ hasAspect(operation, "READ_OPERATION")
                    /\ topology.retryReads # "false"
                    /\ ~sessionInTransaction(operationSession)
                    /\ maxWireVersion(server) >= SUPPORTS_OP_MSG
                    /\ operation.canRetryRead
        writeGate == /\ hasAspect(operation, "WRITE_OPERATION")
                     /\ topology.retryWrites = "true"
                     /\ ~sessionInTransaction(operationSession)
                     /\ supportsRetryableWrites(server)
                     /\ operation.canRetryWrite
        gated == /\ session.present
                 /\ hasAspect(operation, "RETRYABLE")
                 /\ (readGate \/ writeGate)
    IN /\ retryArmed <=> gated
       /\ (topology.retryReads = "unset" /\ topology.retryWrites = "unset")
            => (retryArmed <=> (gated /\ readGate))

C13_Witness ==
  /\ Len(attempts) >= 1
  /\ retryArmed
  /\ topology.retryReads = "unset"
  /\ topology.retryWrites = "unset"
  /\ operation.aspects = { "RETRYABLE", "READ_OPERATION" }
  /\ startSessionCalls = 1

\* C14: every server selection of the inner machine uses one selector: the
\* same-server selector on the operation's server when the operation is
\* CURSOR_ITERATING (whatever trySecondaryWrite says), otherwise the
\* secondary-writable selector when trySecondaryWrite is set, otherwise the
\* read preference (primary when the operation names none); the
\* re-selection of a retry uses it again, so every attempt of a
\* CURSOR_ITERATING operation runs on the server it is pinned to.
C14_OneSelector ==
  LET preference == IF operation.readPreference = "none"
                      THEN "primary" ELSE operation.readPreference
      kind == IF "CURSOR_ITERATING" \in operation.aspects THEN "sameServer"
              ELSE IF operation.trySecondaryWrite THEN "secondaryWritable"
              ELSE "readPreference"
  IN
  /\ \A i \in 1..Len(selectLog) :
       /\ selectLog[i] = selector
       /\ selectLog[i].kind = kind
       /\ kind = "sameServer" => selectLog[i].server = operation.server
       /\ kind # "sameServer" => selectLog[i].readPreference = preference
  /\ "CURSOR_ITERATING" \in operation.aspects
       => \A i \in 1..Len(attempts) : attempts[i].server.address = operation.server

C14_Witness ==
  /\ pc = "done"
  /\ "CURSOR_ITERATING" \in operation.aspects
  /\ operation.trySecondaryWrite
  /\ Len(selectLog) = 2
  /\ Len(attempts) = 2
  /\ attempts[2].error = NoError

\* C15: pre-flight calls session.unpin, once, after the transaction
\* read-preference check and before the first server selection, exactly
\* when the session is pinned, its transaction is committed and the
\* operation does not bypass the pinning check; in every other case the
\* session goes into the first selection pinned as the caller passed it.
C15_PreflightUnpin ==
  InnerEntered =>
    LET unpins == operationSession.present
                  /\ operationSession.isPinned
                  /\ operationSession.txnState = "TRANSACTION_COMMITTED"
                  /\ ~operation.bypassPinningCheck
        calls == { i \in 1..Len(unpinLog) : unpinLog[i] = "unpin" }
    IN /\ calls = IF unpins THEN { 1 } ELSE { }
       /\ unpins => Len(selectLog) >= 1
       /\ pc = "selectServer1" =>
            /\ Len(selectLog) = 1
            /\ attempts = << >>
            /\ session.isPinned = (operationSession.isPinned /\ ~unpins)
            /\ (~unpins /\ operationSession.present) => session = operationSession

C15_Witness ==
  /\ pc = "selectServer1"
  /\ operationSession.isPinned
  /\ operationSession.txnState = "TRANSACTION_COMMITTED"
  /\ ~operation.bypassPinningCheck
  /\ unpinLog = << "unpin" >>
  /\ ~session.isPinned

\* the session is pinned when the first attempt fails: the caller passed it
\* pinned and pre-flight did not unpin it
PinnedAtRetry ==
  /\ operationSession.present
  /\ operationSession.isPinned
  /\ ~( operationSession.txnState = "TRANSACTION_COMMITTED"
        /\ ~operation.bypassPinningCheck )

\* the case of the force-unpin: retryOperation ran for a network error of a
\* CURSOR_CREATING operation on a pinned session outside a transaction
ForceUnpinCase ==
  /\ Len(retryLog) = 1
  /\ hasAspect(operation, "CURSOR_CREATING")
  /\ IsNetworkError(attempts[1].error)
  /\ PinnedAtRetry
  /\ ~sessionInTransaction(operationSession)

ForceUnpinned == \E i \in 1..Len(unpinLog) : unpinLog[i] = "forceClear"

Reselected == Len(selectResults) = 2

\* C17 as stated, for the retry of a READ operation: when the re-selection
\* hands over no server, there is no second attempt and the error surfaced
\* is the selection error when there is one and otherwise the
\* UnexpectedServerResponse error "Server selection failed without error".
C17_NoServerOnReselection ==
  ( /\ Reselected
    /\ ~selectResults[2].hasServer
    /\ hasAspect(operation, "READ_OPERATION") )
  => /\ Len(attempts) = 1
     /\ inner.calls = 1
     /\ inner.result = "undefined"
     /\ inner.error = IF selectResults[2].error # NoError
                        THEN selectResults[2].error
                        ELSE SelectionFailedError

\* the retry kinds armed by the completion of the first selection
ReadArmed ==
  /\ Len(attempts) >= 1
  /\ armsRead(topology, inTransaction, attempts[1].server, operation, session)

WriteArmed == operation.willRetryWrite

\* how the re-selection ends when its server is refused
Refused(error) ==
  /\ Len(attempts) = 1
  /\ inner = Outcome(error, "undefined")

\* C18 as stated: after a re-selection that handed over a server, the
\* second attempt is executed exactly when that server supports the retry
\* kind that was armed (wire version at least SUPPORTS_OP_MSG for a read,
\* advertised retryable writes for a write); otherwise an
\* UnexpectedServerResponse error naming the capability is surfaced and
\* there is no second attempt.
C18_Original ==
  (Reselected /\ selectResults[2].hasServer) =>
    LET server == selectResults[2].server
        supported == /\ ReadArmed => maxWireVersion(server) >= SUPPORTS_OP_MSG
                     /\ WriteArmed => supportsRetryableWrites(server)
    IN /\ Len(attempts) = 2 <=> supported
       /\ ~supported => ( Refused(NoRetryableReadsError)
                          \/ Refused(NoRetryableWritesError) )

\* C18 (amended): after a re-selection that handed over a server, the
\* second attempt is executed exactly when that server supports the retry
\* of every aspect the operation has (wire version at least
\* SUPPORTS_OP_MSG when it is a READ, advertised retryable writes when it
\* is a WRITE), whichever kind was armed; otherwise the
\* UnexpectedServerResponse error naming the first missing capability is
\* surfaced and there is no second attempt.  For an operation with one of
\* the two aspects that is the kind that was armed.
C18_CapabilityRecheck ==
  (Reselected /\ selectResults[2].hasServer) =>
    LET server == selectResults[2].server
        reads == hasAspect(operation, "READ_OPERATION")
        writes == hasAspect(operation, "WRITE_OPERATION")
        readsOk == reads => maxWireVersion(server) >= SUPPORTS_OP_MSG
        writesOk == writes => supportsRetryableWrites(server)
    IN /\ Len(attempts) = 2 <=> (readsOk /\ writesOk)
       /\ Len(attempts) = 2 => attempts[2].server = server
       /\ ~readsOk => Refused(NoRetryableReadsError)
       /\ (readsOk /\ ~writesOk) => Refused(NoRetryableWritesError)
       /\ (reads /\ ~writes) => (ReadArmed /\ ~WriteArmed)
       /\ (writes /\ ~reads) => (WriteArmed /\ ~ReadArmed)

C18_Witness ==
  /\ pc = "done"
  /\ Reselected
  /\ selectResults[2].hasServer
  /\ ~supportsRetryableWrites(selectResults[2].server)
  /\ operation.aspects = { "RETRYABLE", "WRITE_OPERATION" }
  /\ delivered.error = NoRetryableWritesError
  /\ Len(attempts) = 1

\* the execution incremented the session's transaction number
Incremented == session.txnNumber # operationSession.txnNumber

C19_Together ==
  /\ operation.willRetryWrite <=> Incremented
  /\ Incremented =>
       /\ session.txnNumber = operationSession.txnNumber + 1
       /\ Len(selectResults) >= 1
       /\ selectResults[1].hasServer
       /\ selectResults[1].error = NoError
       /\ Len(attempts) >= 1
       /\ attempts[1].txnNumber = session.txnNumber
  /\ (Terminal /\ (Len(attempts) = 0 \/ inner.error = TransactionError))
       => (~operation.willRetryWrite /\ ~Incremented)

C19_OnlyBeforeFirstAttempt ==
  ( \/ operation.willRetryWrite' # operation.willRetryWrite
    \/ session.txnNumber' # session.txnNumber )
  => /\ pc = "selectServer1"
     /\ pc' = "execute1"
     /\ attempts = << >>
     /\ Len(attempts') = 1
     /\ ~operation.willRetryWrite
     /\ operation.willRetryWrite'
     /\ session.txnNumber' = session.txnNumber + 1
     /\ attempts'[1].txnNumber = session.txnNumber'

\* C19: the increment of the session's transaction number and the setting
\* of options.willRetryWrite happen together, in the completion of a first
\* selection that handed over a server and before the first attempt is
\* started with the new number; no other step changes either, so neither
\* happens when pre-flight or the first selection fails nor on the retry
\* path, and at any time willRetryWrite is set exactly when the number was
\* incremented.
C19_IncrementWithFlag == []C19_Together /\ [][C19_OnlyBeforeFirstAttempt]_vars

C19_Witness ==
  /\ pc = "done"
  /\ operation.willRetryWrite
  /\ Incremented
  /\ Len(selectLog) = 2
  /\ Len(attempts) = 1
  /\ inner.error = SelectionError

\* C20 as stated: a second attempt of an operation with the WRITE aspect,
\* an operation with the READ and the WRITE aspect included, is started
\* only when write retry was armed: this execution set willRetryWrite and
\* incremented the session's transaction number before the first attempt,
\* so that the write is re-sent with a number this execution assigned.
C20_WriteRetryNeedsTxnNumber ==
  (hasAspect(operation, "WRITE_OPERATION") /\ Len(attempts) = 2)
  => /\ WriteArmed
     /\ Incremented
     /\ attempts[1].txnNumber = operationSession.txnNumber + 1
     /\ attempts[2].txnNumber = attempts[1].txnNumber

----------------------------------------------------------------------------
(* Two executions on one explicit session.  Each execution has its own     *)
(* locals (a record of `executions`); the session is the one object both   *)
(* were handed, so what one execution does to it the other one sees.  The  *)
(* completions of the two executions interleave freely.                    *)

Executions == { 1, 2 }

\* the servers the selections of these executions hand over
SharedServers == { server \in Servers : server.address = "a" }

SharedInputs ==
  Topologies({ "unset" }, { "true" }, { TRUE }, { TRUE }, { FALSE })
  \X Operations({ { "RETRYABLE", "WRITE_OPERATION" } }, { "primary" }, { TRUE },
                { TRUE }, { FALSE }, { FALSE })
  \X ExplicitSessions({ "null" }, { FALSE }, { FALSE }, { "NO_TRANSACTION" },
                      { FALSE })

\* the locals of an execution that has not run yet
NewExecution(op) ==
  [ pc |-> "start", operation |-> op, inTransaction |-> FALSE,
    retryArmed |-> FALSE, knownMaxWireVersion |-> 0, attempts |-> << >>,
    outcome |-> NoOutcome ]

SharedInit ==
  /\ \E input \in SharedInputs :
        /\ topology = input[1]
        /\ operation = input[2]
        /\ operationSession = input[3]
        /\ session = input[3]
        /\ executions = [ e \in Executions |-> NewExecution(input[2]) ]
  /\ owner = "null"
  /\ pc = "start"
  /\ onStack = FALSE
  /\ selector = "none"
  /\ inTransaction = FALSE
  /\ retryArmed = FALSE
  /\ knownMaxWireVersion = 0
  /\ selectLog = << >>
  /\ attempts = << >>
  /\ unpinLog = << >>
  /\ startSessionCalls = 0
  /\ endSessionCalls = 0
  /\ discoveries = 0
  /\ txnStart = 0
  /\ inner = NoOutcome
  /\ serverDescription = NoServer
  /\ retryLog = << >>
  /\ selectResults = << >>
  /\ delivered = NoOutcome

\* what the steps of these executions leave alone
sharedFrame ==
  << topology, operation, operationSession, owner, pc, onStack, selector,
     inTransaction, retryArmed, knownMaxWireVersion, selectLog, attempts,
     unpinLog, startSessionCalls, endSessionCalls, discoveries, txnStart, inner,
     serverDescription, retryLog, selectResults, delivered >>

\* callback(error, result) of execution e: the session is explicit, so the
\* caller's callback is called directly
SharedCallback(e, locals, error, result) ==
  executions' = [ executions EXCEPT
                    ![e] = [ locals EXCEPT !.pc = "done",
                                           !.outcome = Outcome(error, result) ] ]

\* executeOperation of execution e, up to its first topology.selectServer
SharedExecuteOperation(e) ==
  LET x == executions[e]
      readPreference == effectiveReadPreference(x.operation)
      inTxn == sessionInTransaction(session)
  IN /\ x.pc = "start"
     /\ IF acquisitionError(topology, session) # NoError
          THEN /\ SharedCallback(e, x, acquisitionError(topology, session), "undefined")
               /\ session' = session
        ELSE IF preflightFails(inTxn, readPreference)
          THEN /\ SharedCallback(e, x, TransactionError, "undefined")
               /\ session' = session
        ELSE /\ session' = IF shouldUnpin(session, x.operation)
                              THEN unpin(session) ELSE session
             /\ executions' =
                  [ executions EXCEPT ![e] = [ x EXCEPT !.pc = "selectServer1",
                                                        !.inTransaction = inTxn ] ]
     /\ UNCHANGED sharedFrame

\* completion of the first topology.selectServer of execution e
SharedSelectServer1Done(e) ==
  LET x == executions[e] IN
  /\ x.pc = "selectServer1"
  /\ \/ \E error \in { NoError, SelectionError } :
          /\ SharedCallback(e, x, error, "undefined")
          /\ session' = session
     \/ \E server \in SharedServers :
          LET w == armsWrite(topology, x.inTransaction, server, x.operation, session)
              r == armsRead(topology, x.inTransaction, server, x.operation, session)
              s2 == IF w THEN incrementTransactionNumber(session) ELSE session
          IN /\ session' = s2
             /\ executions' =
                  [ executions EXCEPT
                      ![e] = [ x EXCEPT
                        !.pc = "execute1",
                        !.operation = IF w THEN setWillRetryWrite(@) ELSE @,
                        !.retryArmed = (r \/ w),
                        !.knownMaxWireVersion =
                           IF r \/ w THEN maxWireVersion(server) ELSE @,
                        !.attempts = Append(@, Attempt(server, s2)) ] ]
  /\ UNCHANGED sharedFrame

\* completion of the first operation.execute of execution e
SharedExecute1Done(e) ==
  LET x == executions[e] IN
  /\ x.pc = "execute1"
  /\ \E error \in AttemptErrors(1) \cup { NoError } :
       LET result == IF error = NoError THEN "result1" ELSE "undefined"
           done == [ x EXCEPT !.attempts[1] = Complete(@, error, result) ]
           d == retryDecision(x.operation, error, x.knownMaxWireVersion)
       IN IF ~(x.retryArmed /\ IsMongoError(error))
            THEN /\ SharedCallback(e, done, error, result)
                 /\ session' = session
          ELSE IF d = "surface"
            THEN /\ SharedCallback(e, done, error, "undefined")
                 /\ session' = session
          ELSE IF d = "remap"
            THEN /\ SharedCallback(e, done, RemappedError, "undefined")
                 /\ session' = session
          ELSE /\ session' = retrySession(x.operation, error, session)
               /\ executions' =
                    [ executions EXCEPT ![e] = [ done EXCEPT !.pc = "selectServer2" ] ]
  /\ UNCHANGED sharedFrame

\* completion of the topology.selectServer of retryOperation of execution e
SharedSelectServer2Done(e) ==
  LET x == executions[e] IN
  /\ x.pc = "selectServer2"
  /\ \E error \in { NoError, SelectionError }, hasServer \in BOOLEAN,
        srv \in SharedServers :
       LET server == IF hasServer THEN srv ELSE NoServer
           refusal == reselectionError(x.operation, error, hasServer, server)
       IN /\ error # NoError => ~hasServer
          /\ IF refusal # NoError
               THEN SharedCallback(e, x, refusal, "undefined")
               ELSE executions' =
                      [ executions EXCEPT
                          ![e] = [ x EXCEPT
                             !.pc = "execute2",
                             !.attempts = Append(@, Attempt(server, session)) ] ]
  /\ UNCHANGED session
  /\ UNCHANGED sharedFrame

\* completion of the second operation.execute of execution e
SharedExecute2Done(e) ==
  LET x == executions[e] IN
  /\ x.pc = "execute2"
  /\ \E error \in SecondAttemptErrors \cup { NoError } :
       LET result == IF error = NoError THEN "result2" ELSE "undefined"
           done == [ x EXCEPT !.attempts[2] = Complete(@, error, result) ]
       IN SharedCallback(e, done,
                         retryOutcome(done.attempts[1], done.attempts[2]).error,
                         retryOutcome(done.attempts[1], done.attempts[2]).result)
  /\ UNCHANGED session
  /\ UNCHANGED sharedFrame

SharedNext ==
  \E e \in Executions :
     \/ SharedExecuteOperation(e)
     \/ SharedSelectServer1Done(e)
     \/ SharedExecute1Done(e)
     \/ SharedSelectServer2Done(e)
     \/ SharedExecute2Done(e)

SharedSpec == SharedInit /\ [][SharedNext]_vars

\* C21 as stated: whatever the interleaving of two executions of armed
\* retryable writes on one explicit session, the transaction number of the
\* session when an execution starts its second attempt is the number it
\* had when that execution started its first attempt.
C21_SameNumberOnSharedSession ==
  \A e \in Executions :
     ( /\ executions[e].operation.willRetryWrite
       /\ Len(executions[e].attempts) = 2 )
     => executions[e].attempts[2].txnNumber = executions[e].attempts[1].txnNumber

====
